---- MODULE Spec2Model ----
(***************************************************************************)
(* Model of pf_lib1.py: the peak/valley pipeline that turns one raw motif  *)
(* distribution row into a regulation record.                               *)
(*                                                                         *)
(*   _reduce_data_for_peak_detection  (bucket_reduction, bucket_smooth)     *)
(*   _determine_scans                                                       *)
(*   find_peaks_and_or_valleys        (two calls of scipy find_peaks)       *)
(*   categorize_msd_file_into_tf_regulation  (the batch driver)             *)
(*                                                                         *)
(* Numbers.  Raw counts are integers.  statistics.mean of a window of      *)
(* smooth_size integers is the rational sum/smooth_size; a reduced row is  *)
(* kept as the sequence of window sums (numerators) over the common        *)
(* denominator smooth_size.  Comparisons against mean +/- 1.5*stdev are    *)
(* made exactly, by squaring, on multi-word naturals: the model is the     *)
(* code over the rationals, without the rounding of binary floating point. *)
(***************************************************************************)
EXTENDS Integers, Sequences, FiniteSets, TLC

VARIABLES
    raw_data,               \* read_mds_file(...)[1]: the raw rows of the batch
    ids,                    \* read_mds_file(...)[0]: one identifier per row
    sra,                    \* sample tag of the file name
    reduce_size,            \* bin size of bucket_reduction
    smooth_size,            \* window size of bucket_smooth
    it,                     \* the outer for loop's range iterator (next index, 0-based)
    i,                      \* the loop variable i (shared by both for loops)
    raw_data_row,           \* the row being processed
    bucketed_row,           \* _reduce_data_for_peak_detection.bucketed_row
    reduced_row,            \* smoothed_row, numerators over smooth_size
    signals,                \* _determine_scans.signals
    grouped_signal_counts,  \* _determine_scans.grouped_signal_counts
    peak_scan,              \* scan flags returned by _determine_scans
    valley_scan,
    peaks,                  \* find_peaks_and_or_valleys results (0-based indices)
    valleys,
    peak_properties,
    valley_properties,
    searches,               \* the find_peaks calls executed for the current row
    peak_count,             \* len(peaks), len(valleys) of the current row
    valley_count,
    rows_by_counts,         \* diagnostic map (peak_count, valley_count) -> row indices
    category,
    peaks_bp,
    valleys_bp,
    tf_regulation_line,     \* the line under construction, as a sequence of tokens
    f,                      \* the lines written to the output file, in order
    f_open,                 \* the output file object is open
    exception,              \* "" or the exception that left the call
    pc                      \* position in the code

vars == << raw_data, ids, sra, reduce_size, smooth_size, it, i, raw_data_row,
           bucketed_row, reduced_row, signals, grouped_signal_counts,
           peak_scan, valley_scan, peaks, valleys, peak_properties,
           valley_properties, searches, peak_count, valley_count,
           rows_by_counts, category, peaks_bp, valleys_bp, tf_regulation_line,
           f, f_open, exception, pc >>

inputVars == << raw_data, ids, sra, reduce_size, smooth_size >>
loopVars == << it, i, raw_data_row >>
reduceVars == << bucketed_row, reduced_row >>
scanVars == << signals, grouped_signal_counts, peak_scan, valley_scan >>
detectVars == << peaks, valleys, peak_properties, valley_properties, searches >>
recordVars == << peak_count, valley_count, rows_by_counts, category, peaks_bp,
                valleys_bp, tf_regulation_line >>
fileVars == << f, f_open >>

-----------------------------------------------------------------------------
(* Exact arithmetic on naturals of any size: little-endian limbs.          *)

BigBase == 100 * 100

RECURSIVE BigOf(_)
BigOf(n) == IF n = 0 THEN << >> ELSE << n % BigBase >> \o BigOf(n \div BigBase)

RECURSIVE BigAddC(_, _, _)
BigAddC(a, b, c) ==
    IF a = << >> /\ b = << >>
    THEN (IF c = 0 THEN << >> ELSE << c >>)
    ELSE LET da == IF a = << >> THEN 0 ELSE Head(a)
             db == IF b = << >> THEN 0 ELSE Head(b)
             s == da + db + c
         IN  << s % BigBase >>
                \o BigAddC(IF a = << >> THEN a ELSE Tail(a),
                           IF b = << >> THEN b ELSE Tail(b),
                           s \div BigBase)

BigAdd(a, b) == BigAddC(a, b, 0)

\* a * k for a limb-sized k (0 <= k < BigBase)
RECURSIVE BigMulLimb(_, _, _)
BigMulLimb(a, k, c) ==
    IF a = << >>
    THEN BigOf(c)
    ELSE LET s == Head(a) * k + c
         IN  << s % BigBase >> \o BigMulLimb(Tail(a), k, s \div BigBase)

RECURSIVE BigStrip(_)
BigStrip(a) ==
    IF a # << >> /\ a[Len(a)] = 0 THEN BigStrip(SubSeq(a, 1, Len(a) - 1)) ELSE a

RECURSIVE BigMul(_, _)
BigMul(a, b) ==
    IF b = << >> \/ a = << >>
    THEN << >>
    ELSE BigStrip(BigAdd(BigMulLimb(a, Head(b), 0), << 0 >> \o BigMul(a, Tail(b))))

RECURSIVE BigCmpFrom(_, _, _)
BigCmpFrom(a, b, k) ==
    IF k = 0 THEN 0
    ELSE IF a[k] < b[k] THEN -1
    ELSE IF a[k] > b[k] THEN 1
    ELSE BigCmpFrom(a, b, k - 1)

\* -1, 0, 1 as a < b, a = b, a > b (a, b without leading zero limbs)
BigCmp(a, b) ==
    IF Len(a) < Len(b) THEN -1
    ELSE IF Len(a) > Len(b) THEN 1
    ELSE BigCmpFrom(a, b, Len(a))

Abs(n) == IF n < 0 THEN -n ELSE n
Min(a, b) == IF a < b THEN a ELSE b
Max(a, b) == IF a > b THEN a ELSE b

-----------------------------------------------------------------------------
(* Python built-ins and the statistics module, over integer sequences.     *)

\* sum(lst[lo..hi]), by halves
RECURSIVE SumRange(_, _, _)
SumRange(lst, lo, hi) ==
    IF lo > hi THEN 0
    ELSE IF lo = hi THEN lst[lo]
    ELSE LET mid == (lo + hi) \div 2
         IN  SumRange(lst, lo, mid) + SumRange(lst, mid + 1, hi)

sum(lst) == SumRange(lst, 1, Len(lst))

\* sum of the squares of lst[lo..hi], as a multi-word natural
RECURSIVE SumSqRange(_, _, _)
SumSqRange(lst, lo, hi) ==
    IF lo > hi THEN << >>
    ELSE IF lo = hi THEN BigMul(BigOf(Abs(lst[lo])), BigOf(Abs(lst[lo])))
    ELSE LET mid == (lo + hi) \div 2
         IN  BigAdd(SumSqRange(lst, lo, mid), SumSqRange(lst, mid + 1, hi))

\* max(lst[lo..hi]), lo <= hi
RECURSIVE MaxRange(_, _, _)
MaxRange(lst, lo, hi) ==
    IF lo = hi THEN lst[lo]
    ELSE LET mid == (lo + hi) \div 2
         IN  Max(MaxRange(lst, lo, mid), MaxRange(lst, mid + 1, hi))

max(lst) == MaxRange(lst, 1, Len(lst))

\* statistics.mean raises StatisticsError on no data point,
\* statistics.stdev (through variance) on fewer than two.
MeanRaises(data) == Len(data) < 1
StdevRaises(data) == Len(data) < 2

(* With n = len(data), S = sum(data), Q = sum of squares, the mean is S/n   *)
(* and the sample variance (n*Q - S*S) / (n*(n-1)).  For a deviation        *)
(* d = n*x - S >= 0:                                                        *)
(*     x - mean  >  1.5*stdev   <=>   4*(n-1)*d*d + 9*n*S*S  >  9*n*n*Q     *)
(* (>= likewise).  The statistics of a row keep n, S and the two terms that *)
(* do not depend on x: low = 9*n*S*S, high = 9*n*n*Q.                       *)
Stats(data) ==
    LET n == Len(data)
        S == sum(data)
    IN  [n |-> n, S |-> S,
         low |-> BigMul(BigOf(9 * n), BigMul(BigOf(Abs(S)), BigOf(Abs(S)))),
         high |-> BigMul(BigMul(BigOf(9 * n), BigOf(n)), SumSqRange(data, 1, n))]

\* the sign of  4*(n-1)*d*d + low - high
Dev15(d, st) ==
    BigCmp(BigAdd(BigMul(BigOf(4 * (st.n - 1)), BigMul(BigOf(Abs(d)), BigOf(Abs(d)))),
                  st.low),
           st.high)

\* AboveBand with >= for >
AboveBandMutant(x, st) ==
    LET d == st.n * x - st.S IN d >= 0 /\ Dev15(d, st) >= 0

\* x > mean + stdev*1.5
AboveBand(x, st) ==
    LET d == st.n * x - st.S IN d > 0 /\ Dev15(d, st) > 0

\* x < mean - stdev*1.5
BelowBand(x, st) ==
    LET d == st.S - st.n * x IN d > 0 /\ Dev15(d, st) > 0

-----------------------------------------------------------------------------
(* _reduce_data_for_peak_detection                                          *)

\* bucket_reduction(lst, n): the successive n-sized chunks of lst
bucket_reduction(lst, n) ==
    [k \in 1..((Len(lst) + n - 1) \div n) |->
        SubSeq(lst, (k - 1) * n + 1, Min(k * n, Len(lst)))]

\* bucket_smooth with range(0, len(lst) - n + 1): every full window
bucket_smoothMutant(lst, n) ==
    [k \in 1..Max(0, Len(lst) - n + 1) |-> SubSeq(lst, k, k + n - 1)]

\* bucket_smooth(lst, n): the rolling windows lst[i:i+n], i in range(0, len(lst)-n)
bucket_smooth(lst, n) ==
    [k \in 1..Max(0, Len(lst) - n) |-> SubSeq(lst, k, k + n - 1)]

\* bucketed_row: the sum of each chunk
BucketedRow(raw_row, n) ==
    LET chunks == bucket_reduction(raw_row, n)
    IN  [k \in 1..Len(chunks) |-> sum(chunks[k])]

\* smoothed_row: the mean of each window, as its numerator over n
SmoothedRow(bucketed, n) ==
    LET windows == bucket_smooth(bucketed, n)
    IN  [k \in 1..Len(windows) |-> sum(windows[k])]

_reduce_data_for_peak_detection(raw_row, rsize, ssize) ==
    SmoothedRow(BucketedRow(raw_row, rsize), ssize)

-----------------------------------------------------------------------------
(* _determine_scans                                                         *)

scan_threshold == 5

\* the signal array: 1 above the band, -1 below it, else 0
Signals(row) ==
    LET st == Stats(row)
    IN  [k \in 1..Len(row) |->
            IF AboveBand(row[k], st) THEN 1
            ELSE IF BelowBand(row[k], st) THEN -1
            ELSE 0]

\* [(k, sum(1 for i in g)) for k, g in groupby(s)]: a group starts wherever
\* the key changes, and runs to the start of the next
GroupBy(s) ==
    LET starts == SelectSeq([k \in 1..Len(s) |-> k],
                            LAMBDA k : k = 1 \/ s[k] # s[k - 1])
    IN  [g \in 1..Len(starts) |->
            << s[starts[g]],
               (IF g < Len(starts) THEN starts[g + 1] ELSE Len(s) + 1) - starts[g] >>]

\* ScanFlag with count >= scan_threshold
ScanFlagMutant(grouped, signal_value) ==
    \E g \in 1..Len(grouped) :
        grouped[g][1] = signal_value /\ grouped[g][2] >= scan_threshold

\* the loop over grouped_signal_counts, for one flag
ScanFlag(grouped, signal_value) ==
    \E g \in 1..Len(grouped) :
        grouped[g][1] = signal_value /\ grouped[g][2] > scan_threshold

-----------------------------------------------------------------------------
(* scipy.signal.find_peaks(x, height, distance, prominence, width), as      *)
(* called at the two call sites; positions inside are 1-based, the result  *)
(* is 0-based as numpy's.  x holds numerators over den.                     *)

SetMin(S) == CHOOSE v \in S : \A u \in S : v <= u
SetMax(S) == CHOOSE v \in S : \A u \in S : u <= v

\* min(lst[lo..hi]), lo <= hi
RECURSIVE MinRange(_, _, _)
MinRange(lst, lo, hi) ==
    IF lo = hi THEN lst[lo]
    ELSE LET mid == (lo + hi) \div 2
         IN  Min(MinRange(lst, lo, mid), MinRange(lst, mid + 1, hi))

\* _local_maxima_1d, the inner while: from k + 1 on, the first position that
\* is the last one of x or holds another value than x[k]
PlateauAhead(x, k) == SetMin({j \in (k + 1)..Len(x) : j = Len(x) \/ x[j] # x[k]})

\* _local_maxima_1d: the midpoint of every plateau that rises from its left
\* neighbour and falls to its right one (a plateau touching either end of x
\* is none); left edge k, right edge PlateauAhead - 1, 0-based (k-1 + ahead-2)//2
LocalMaxima(x) ==
    LET edges == SelectSeq([k \in 1..Len(x) |-> k],
                           LAMBDA k : /\ 1 < k /\ k < Len(x)
                                      /\ x[k - 1] < x[k]
                                      /\ x[PlateauAhead(x, k)] < x[k])
    IN  [e \in 1..Len(edges) |->
            ((edges[e] - 1) + (PlateauAhead(x, edges[e]) - 2)) \div 2 + 1]

\* the height condition  v >= c + m*mean + 1.5*stdev  (h = [c, m]; st the
\* statistics of the row the mean and stdev were taken of)
HeightAtLeast(v, h, st) ==
    LET d == st.n * (v - h.c) - h.m * st.S
    IN  d >= 0 /\ Dev15(d, st) >= 0

\* _select_by_peak_distance: by falling priority (height; equal heights by
\* falling position), a kept peak removes every peak closer than distance
RECURSIVE SelectByDistance(_, _, _, _)
SelectByDistance(x, todo, keep, distance) ==
    IF todo = {} THEN keep
    ELSE LET j == CHOOSE p \in todo :
                    \A q \in todo : x[q] < x[p] \/ (x[q] = x[p] /\ q <= p)
         IN  IF j \notin keep
             THEN SelectByDistance(x, todo \ {j}, keep, distance)
             ELSE SelectByDistance(x, todo \ {j},
                      {k \in keep : k = j \/ Abs(k - j) >= distance}, distance)

\* _peak_prominences: each walk from the peak goes on while x[i] <= x[peak];
\* it keeps the lowest value passed and the position where it first met it
Prominence(x, peak) ==
    LET lstop == SetMax({0} \cup {k \in 1..(peak - 1) : x[k] > x[peak]})
        rstop == SetMin({Len(x) + 1} \cup {k \in (peak + 1)..Len(x) : x[k] > x[peak]})
        left_min == MinRange(x, lstop + 1, peak)
        right_min == MinRange(x, peak, rstop - 1)
    IN  [prominence |-> x[peak] - Max(left_min, right_min),
         left_base |-> SetMax({k \in (lstop + 1)..peak : x[k] = left_min}),
         right_base |-> SetMin({k \in peak..(rstop - 1) : x[k] = right_min})]

\* _peak_widths at rel_height 0.5: each walk from the peak goes on while the
\* evaluation height (h2 = twice its numerator) is below x[i] and the base is
\* not reached.  The width is right_ip - left_ip, with left_ip = l + a/b and
\* right_ip = r - c/e;  width >= w  <=>  (r - l - w)*b*e >= a*e + c*b
WidthAtLeast(x, peak, pr, w) ==
    LET h2 == 2 * x[peak] - pr.prominence
        l == SetMax({k \in pr.left_base..peak : k = pr.left_base \/ h2 >= 2 * x[k]})
        r == SetMin({k \in peak..pr.right_base : k = pr.right_base \/ h2 >= 2 * x[k]})
        a == IF 2 * x[l] < h2 THEN h2 - 2 * x[l] ELSE 0
        b == IF 2 * x[l] < h2 THEN 2 * (x[l + 1] - x[l]) ELSE 1
        c == IF 2 * x[r] < h2 THEN h2 - 2 * x[r] ELSE 0
        e == IF 2 * x[r] < h2 THEN 2 * (x[r - 1] - x[r]) ELSE 1
    IN  /\ r - l - w >= 0
        /\ BigCmp(BigMul(BigOf(r - l - w), BigMul(BigOf(b), BigOf(e))),
                  BigAdd(BigMul(BigOf(a), BigOf(e)), BigMul(BigOf(c), BigOf(b)))) >= 0

\* a finite set of integers as the ascending sequence of its elements
RECURSIVE Ascending(_)
Ascending(S) ==
    IF S = {} THEN << >>
    ELSE LET m == CHOOSE v \in S : \A u \in S : v <= u
         IN  << m >> \o Ascending(S \ {m})

find_peaks(x, den, height, st, distance, prominence, width) ==
    LET maxima == LocalMaxima(x)
        high == {maxima[k] : k \in {j \in 1..Len(maxima) :
                                        HeightAtLeast(x[maxima[j]], height, st)}}
        apart == SelectByDistance(x, high, high, distance)
        prominent == {p \in apart : Prominence(x, p).prominence >= prominence * den}
        wide == {p \in prominent : WidthAtLeast(x, p, Prominence(x, p), width)}
        found == Ascending(wide)
    IN  [peaks |-> [k \in 1..Len(found) |-> found[k] - 1],
         properties |->
            [peak_heights |-> [k \in 1..Len(found) |-> x[found[k]]],
             prominences |-> [k \in 1..Len(found) |-> Prominence(x, found[k]).prominence]]]

-----------------------------------------------------------------------------
(* find_peaks_and_or_valleys: the two guarded searches                      *)

\* the search run whatever the flag
ShouldScanMutant(scan) == TRUE

\* "if peak_scan == True:" / "if valley_scan == True:"
ShouldScan(scan) == scan = TRUE

distance == 20
prominence == 4
width == 3

\* find_peaks(y, height=mean_y+stdev_15, ...)
PeakSearch(row, den) ==
    find_peaks(row, den, [c |-> 0, m |-> 1], Stats(row), distance, prominence, width)

\* y_inverse = ymax - y;  find_peaks(y_inverse, height=mean_y_inverse+stdev_15, ...)
\* with mean_y_inverse = ymax - mean_y and the stdev of the row itself
ValleySearch(row, den) ==
    LET ymax == max(row)
        y_inverse == [k \in 1..Len(row) |-> ymax - row[k]]
    IN  find_peaks(y_inverse, den, [c |-> ymax, m |-> -1], Stats(row),
                   distance, prominence, width)

-----------------------------------------------------------------------------
(* categorize_msd_file_into_tf_regulation: the pieces of the loop body      *)

\* str(n) of an integer, as '{}'.format writes it
Digit(d) ==
    CASE d = 0 -> "0" [] d = 1 -> "1" [] d = 2 -> "2" [] d = 3 -> "3" [] d = 4 -> "4"
      [] d = 5 -> "5" [] d = 6 -> "6" [] d = 7 -> "7" [] d = 8 -> "8" [] d = 9 -> "9"

RECURSIVE NatStr(_)
NatStr(n) == IF n < 10 THEN Digit(n) ELSE NatStr(n \div 10) \o Digit(n % 10)

Str(n) == IF n < 0 THEN "-" \o NatStr(-n) ELSE NatStr(n)

\* An identifier is a sequence of pieces, the two literals the code strips
\* being pieces of their own; the string is the pieces joined.
RECURSIVE Join(_)
Join(pieces) == IF pieces = << >> THEN "" ELSE Head(pieces) \o Join(Tail(pieces))

\* ids[i].replace('HO_','').replace('_HUMAN.H10MO','')
CleanId(pieces) ==
    Join(SelectSeq(SelectSeq(pieces, LAMBDA p : p # "HO_"),
                   LAMBDA p : p # "_HUMAN.H10MO"))

\* Categorize without "or peak_count == 4"
CategorizeMutant(pcount, vcount) ==
    IF pcount = 0 /\ vcount = 0 THEN "inactive"
    ELSE IF pcount = 1 /\ vcount = 0 THEN "active"
    ELSE IF pcount = 0 /\ vcount = 1 THEN "repressed"
    ELSE IF pcount = 2 /\ vcount = 0 THEN "offset"
    ELSE "uncategorized"

\* the if/elif chain on (peak_count, valley_count)
Categorize(pcount, vcount) ==
    IF pcount = 0 /\ vcount = 0 THEN "inactive"
    ELSE IF pcount = 1 /\ vcount = 0 THEN "active"
    ELSE IF pcount = 0 /\ vcount = 1 THEN "repressed"
    ELSE IF (pcount = 2 \/ pcount = 4) /\ vcount = 0 THEN "offset"
    ELSE "uncategorized"

\* IntHalf without the halving
IntHalfMutant(n) == n

\* int(smooth_size/2): true division, then truncation
IntHalf(n) == n \div 2

window_half_width == 1500

\* NewLoc without the parentheses
NewLocMutant(old_loc, ssize, rsize) ==
    old_loc + IntHalf(ssize) * rsize - window_half_width

\* new_loc = (old_loc + int(smooth_size/2))*reduce_size - 1500
NewLoc(old_loc, ssize, rsize) == (old_loc + IntHalf(ssize)) * rsize - window_half_width

\* PeakSlots without the else branch: a missing peak adds no field
RECURSIVE PeakSlotsMutant(_, _, _)
PeakSlotsMutant(line, bp, k) ==
    IF k >= 4 THEN line
    ELSE IF Len(bp) > k
         THEN PeakSlotsMutant(line \o << ",", Str(bp[k + 1]) >>, bp, k + 1)
         ELSE PeakSlotsMutant(line, bp, k + 1)

\* the loop "for i in range(4)": slot k (0-based) appended to the line
RECURSIVE PeakSlots(_, _, _)
PeakSlots(line, bp, k) ==
    IF k >= 4 THEN line
    ELSE IF Len(bp) > k
         THEN PeakSlots(line \o << ",", Str(bp[k + 1]) >>, bp, k + 1)
         ELSE PeakSlots(line \o << "," >>, bp, k + 1)

\* the valley slot and the line break
ValleySlot(line, bp) ==
    (IF Len(bp) > 0 THEN line \o << ",", Str(bp[1]) >> ELSE line \o << "," >>)
        \o << "\n" >>

\* NoResult keeping what the name held before
NoResultMutant(previous) == previous

\* "peaks = []" and its like: the name is bound to a new empty list
NoResult(previous) == << >>

\* the index the outer loop hands to the body: the range iterator's own
\* counter, whatever the body left in the loop variable
LoopIndex(iterator, loop_variable) == iterator

-----------------------------------------------------------------------------
(* Inputs                                                                   *)

MaxRows == 3

\* a raw row of len samples: base everywhere, value on the 0-based sample
\* positions from..to of each feature
RawRow(d) ==
    [k \in 1..d.len |->
        IF \E ft \in d.feats : ft.from <= k - 1 /\ k - 1 <= ft.to
        THEN (CHOOSE ft \in d.feats : ft.from <= k - 1 /\ k - 1 <= ft.to).value
        ELSE d.base]

\* one bin of ten samples, starting at sample from
Bin(from, value) == [from |-> from, to |-> from + 9, value |-> value]

TooShortRow == RawRow([len |-> 50, base |-> 1, feats |-> {}])
OnePointRow == RawRow([len |-> 105, base |-> 1, feats |-> {}])
FlatRow == RawRow([len |-> 500, base |-> 3, feats |-> {}])
PeakRow == RawRow([len |-> 500, base |-> 0, feats |-> {Bin(100, 10)}])
ValleyRow == RawRow([len |-> 500, base |-> 10, feats |-> {Bin(200, 0)}])

\* 3000 samples, 0 except 100 on samples 1490..1510
PlateauRow ==
    RawRow([len |-> 3000, base |-> 0,
            feats |-> {[from |-> 1490, to |-> 1510, value |-> 100]}])

\* rows of 2000 samples with the given raised and lowered bins
LongRow(base, ups, downs) ==
    RawRow([len |-> 2000, base |-> base,
            feats |-> {Bin(b, base + 10) : b \in ups} \cup {Bin(b, 0) : b \in downs}])

\* five pairs of raised bins six bins apart: each pair smooths to a top of four
\* points on shoulders of six, and no run of six points leaves the band
PairedRow ==
    LongRow(0, {200, 260, 500, 560, 800, 860, 1100, 1160, 1400, 1460}, {})

ShortRows == {TooShortRow, FlatRow, PeakRow, ValleyRow}

LongRows ==
    { OnePointRow, PlateauRow, PairedRow,
      LongRow(0, {200, 500}, {}),
      LongRow(0, {200, 500, 800}, {}),
      LongRow(0, {200, 500, 800, 1100}, {}),
      LongRow(0, {200, 500, 800, 1100, 1400}, {}),
      LongRow(10, {200}, {1700}),
      LongRow(10, {200, 500}, {1700}),
      LongRow(10, {}, {500, 1700}),
      LongRow(10, {200}, {500, 1700}) }

Batches ==
    UNION {[1..k -> ShortRows] : k \in 0..MaxRows} \cup {<< r >> : r \in LongRows}

IdCatalog ==
    << << "HO_", "P53", "_HUMAN.H10MO" >>, << "HO_", "CTCF", "_HUMAN.H10MO" >>,
       << "GATA1" >>, << "HO_", "MYC" >> >>

\* locals that hold nothing yet
BlankScan ==
    /\ signals = << >> /\ grouped_signal_counts = << >>
    /\ peak_scan = FALSE /\ valley_scan = FALSE

BlankRecord ==
    /\ peaks = << >> /\ valleys = << >>
    /\ peak_properties = << >> /\ valley_properties = << >>
    /\ searches = << >>
    /\ peak_count = 0 /\ valley_count = 0
    /\ rows_by_counts = << >>
    /\ category = "" /\ peaks_bp = << >> /\ valleys_bp = << >>
    /\ tf_regulation_line = << >>
    /\ f = << >> /\ exception = ""

\* categorize_msd_file_into_tf_regulation up to "rows_by_counts = {}"
Init ==
    /\ raw_data \in Batches
    /\ ids = [j \in 1..Len(raw_data) |-> IdCatalog[((j - 1) % Len(IdCatalog)) + 1]]
    /\ sra = "SRR1"
    /\ reduce_size = 10
    /\ smooth_size = 10
    /\ f_open = TRUE
    /\ pc = "for"
    /\ it = 0 /\ i = 0 /\ raw_data_row = << >>
    /\ bucketed_row = << >> /\ reduced_row = << >>
    /\ BlankScan
    /\ BlankRecord

-----------------------------------------------------------------------------
(* The steps                                                                *)

\* for i in range(0, len(raw_data)): raw_data_row = raw_data[i]; the call of
\* find_peaks_and_or_valleys begins
ForNext ==
    /\ pc = "for"
    /\ it < Len(raw_data)
    /\ i' = LoopIndex(it, i)
    /\ it' = it + 1
    /\ raw_data_row' = raw_data[i' + 1]
    /\ pc' = "bucket"
    /\ UNCHANGED << inputVars, reduceVars, scanVars, detectVars, recordVars,
                    fileVars, exception >>

\* the loop is exhausted: f.close(); return None
ForEnd ==
    /\ pc = "for"
    /\ it >= Len(raw_data)
    /\ f_open' = FALSE
    /\ pc' = "done"
    /\ UNCHANGED << inputVars, loopVars, reduceVars, scanVars, detectVars,
                    recordVars, f, exception >>

\* bucketed_row: sum of every chunk of reduce_size samples
BucketReduction ==
    /\ pc = "bucket"
    /\ bucketed_row' = BucketedRow(raw_data_row, reduce_size)
    /\ pc' = "smooth"
    /\ UNCHANGED << inputVars, loopVars, reduced_row, scanVars, detectVars,
                    recordVars, fileVars, exception >>

\* smoothed_row: mean of every window of smooth_size buckets; returned
BucketSmooth ==
    /\ pc = "smooth"
    /\ reduced_row' = SmoothedRow(bucketed_row, smooth_size)
    /\ pc' = "signals"
    /\ UNCHANGED << inputVars, loopVars, bucketed_row, scanVars, detectVars,
                    recordVars, fileVars, exception >>

\* _determine_scans: mean() or stdev() raises; nothing catches it, neither
\* find_peaks_and_or_valleys nor the driver
DetermineScansRaises ==
    /\ pc = "signals"
    /\ MeanRaises(reduced_row) \/ StdevRaises(reduced_row)
    /\ exception' = "StatisticsError"
    /\ pc' = "raised"
    /\ UNCHANGED << inputVars, loopVars, reduceVars, scanVars, detectVars,
                    recordVars, fileVars >>

\* _determine_scans: the signal array
DetermineSignals ==
    /\ pc = "signals"
    /\ ~ (MeanRaises(reduced_row) \/ StdevRaises(reduced_row))
    /\ signals' = Signals(reduced_row)
    /\ pc' = "group"
    /\ UNCHANGED << inputVars, loopVars, reduceVars, grouped_signal_counts,
                    peak_scan, valley_scan, detectVars, recordVars, fileVars,
                    exception >>

\* _determine_scans: grouped_signal_counts
GroupSignals ==
    /\ pc = "group"
    /\ grouped_signal_counts' = GroupBy(signals)
    /\ pc' = "flags"
    /\ UNCHANGED << inputVars, loopVars, reduceVars, signals, peak_scan,
                    valley_scan, detectVars, recordVars, fileVars, exception >>

\* _determine_scans: the two flags, returned
SetScanFlags ==
    /\ pc = "flags"
    /\ peak_scan' = ScanFlag(grouped_signal_counts, 1)
    /\ valley_scan' = ScanFlag(grouped_signal_counts, -1)
    /\ pc' = "results"
    /\ UNCHANGED << inputVars, loopVars, reduceVars, signals,
                    grouped_signal_counts, detectVars, recordVars, fileVars,
                    exception >>

\* find_peaks_and_or_valleys: peaks = [] ... y = np.array(reduced_row)
EmptyResults ==
    /\ pc = "results"
    /\ peaks' = NoResult(peaks)
    /\ valleys' = NoResult(valleys)
    /\ peak_properties' = NoResult(peak_properties)
    /\ valley_properties' = NoResult(valley_properties)
    /\ searches' = << >>
    /\ pc' = "peak_search"
    /\ UNCHANGED << inputVars, loopVars, reduceVars, scanVars, recordVars,
                    fileVars, exception >>

\* if peak_scan == True: peaks, peak_properties = find_peaks(y, ...)
FindPeaks ==
    /\ pc = "peak_search"
    /\ IF ShouldScan(peak_scan)
       THEN LET found == PeakSearch(reduced_row, smooth_size)
            IN  /\ peaks' = found.peaks
                /\ peak_properties' = found.properties
                /\ searches' = Append(searches, "y")
       ELSE UNCHANGED << peaks, peak_properties, searches >>
    /\ pc' = "valley_search"
    /\ UNCHANGED << inputVars, loopVars, reduceVars, scanVars, valleys,
                    valley_properties, recordVars, fileVars, exception >>

\* if valley_scan == True: valleys, valley_properties = find_peaks(y_inverse, ...);
\* find_peaks_and_or_valleys returns
FindValleys ==
    /\ pc = "valley_search"
    /\ IF ShouldScan(valley_scan)
       THEN LET found == ValleySearch(reduced_row, smooth_size)
            IN  /\ valleys' = found.peaks
                /\ valley_properties' = found.properties
                /\ searches' = Append(searches, "y_inverse")
       ELSE UNCHANGED << valleys, valley_properties, searches >>
    /\ pc' = "count"
    /\ UNCHANGED << inputVars, loopVars, reduceVars, scanVars, peaks,
                    peak_properties, recordVars, fileVars, exception >>

\* peak_count, valley_count and the diagnostic map
CountRow ==
    /\ pc = "count"
    /\ peak_count' = Len(peaks)
    /\ valley_count' = Len(valleys)
    /\ LET key == << peak_count', valley_count' >>
           known == IF key \in DOMAIN rows_by_counts
                    THEN rows_by_counts
                    ELSE rows_by_counts @@ (key :> << >>)
       IN  rows_by_counts' = [known EXCEPT ![key] = Append(@, i)]
    /\ pc' = "categorize"
    /\ UNCHANGED << inputVars, loopVars, reduceVars, scanVars, detectVars,
                    category, peaks_bp, valleys_bp, tf_regulation_line, fileVars,
                    exception >>

\* id, category and the first five fields of the line
CategorizeRow ==
    /\ pc = "categorize"
    /\ category' = Categorize(peak_count, valley_count)
    /\ tf_regulation_line' =
          << Str(peak_count), ",", Str(valley_count), ",", CleanId(ids[i + 1]), ",",
             sra, ",", category' >>
    /\ pc' = "positions"
    /\ UNCHANGED << inputVars, loopVars, reduceVars, scanVars, detectVars,
                    peak_count, valley_count, rows_by_counts, peaks_bp,
                    valleys_bp, fileVars, exception >>

\* peaks_bp, valleys_bp
MapPositions ==
    /\ pc = "positions"
    /\ peaks_bp' = [k \in 1..Len(peaks) |-> NewLoc(peaks[k], smooth_size, reduce_size)]
    /\ valleys_bp' =
          [k \in 1..Len(valleys) |-> NewLoc(valleys[k], smooth_size, reduce_size)]
    /\ pc' = "slots"
    /\ UNCHANGED << inputVars, loopVars, reduceVars, scanVars, detectVars,
                    peak_count, valley_count, rows_by_counts, category,
                    tf_regulation_line, fileVars, exception >>

\* for i in range(4): ...; the valley slot; the line break.  The inner loop
\* leaves 3 in i.
FillSlots ==
    /\ pc = "slots"
    /\ tf_regulation_line' = ValleySlot(PeakSlots(tf_regulation_line, peaks_bp, 0), valleys_bp)
    /\ i' = 3
    /\ pc' = "write"
    /\ UNCHANGED << inputVars, it, raw_data_row, reduceVars, scanVars, detectVars,
                    peak_count, valley_count, rows_by_counts, category, peaks_bp,
                    valleys_bp, fileVars, exception >>

\* f.write(tf_regulation_line)
WriteLine ==
    /\ pc = "write"
    /\ f' = Append(f, tf_regulation_line)
    /\ pc' = "for"
    /\ UNCHANGED << inputVars, loopVars, reduceVars, scanVars, detectVars,
                    recordVars, f_open, exception >>

Next ==
    \/ ForNext
    \/ ForEnd
    \/ BucketReduction
    \/ BucketSmooth
    \/ DetermineScansRaises
    \/ DetermineSignals
    \/ GroupSignals
    \/ SetScanFlags
    \/ EmptyResults
    \/ FindPeaks
    \/ FindValleys
    \/ CountRow
    \/ CategorizeRow
    \/ MapPositions
    \/ FillSlots
    \/ WriteLine

Spec == Init /\ [][Next]_vars

-----------------------------------------------------------------------------
(* _reduce_data_for_peak_detection alone: every small row, every small pair *)
(* of sizes                                                                 *)

MaxRawLen == 8
MaxReduce == 3
MaxSmooth == 4

RawRows == UNION {[1..n -> {0, 1}] : n \in 1..MaxRawLen}

InitReduce ==
    /\ raw_data = << >> /\ ids = << >> /\ sra = ""
    /\ raw_data_row \in RawRows
    /\ reduce_size \in 1..MaxReduce
    /\ smooth_size \in 1..MaxSmooth
    /\ f_open = FALSE
    /\ pc = "bucket"
    /\ it = 0 /\ i = 0
    /\ bucketed_row = << >> /\ reduced_row = << >>
    /\ BlankScan
    /\ BlankRecord

NextReduce == BucketReduction \/ BucketSmooth

SpecReduce == InitReduce /\ [][NextReduce]_vars

-----------------------------------------------------------------------------
(* _determine_scans alone: reduced rows made of a few constant stretches    *)
(* (a row of plain numbers is its own mean over windows of one)             *)

MaxSegs == 3
MaxLevel == 2
BackgroundLen == 17

RunLens == {1, scan_threshold, scan_threshold + 1, BackgroundLen}

Stretch(v, n) == [k \in 1..n |-> v]

RECURSIVE SegRows(_)
SegRows(k) ==
    IF k = 0 THEN {<< >>}
    ELSE LET shorter == SegRows(k - 1)
         IN  shorter \cup
             {r \o Stretch(v, n) : r \in shorter, v \in 0..MaxLevel, n \in RunLens}

InitScan ==
    /\ raw_data = << >> /\ ids = << >> /\ sra = ""
    /\ raw_data_row = << >>
    /\ reduce_size = 1
    /\ smooth_size = 1
    /\ f_open = FALSE
    /\ pc = "signals"
    /\ it = 0 /\ i = 0
    /\ bucketed_row = << >>
    /\ reduced_row \in SegRows(MaxSegs)
    /\ BlankScan
    /\ BlankRecord

NextScan == DetermineScansRaises \/ DetermineSignals \/ GroupSignals \/ SetScanFlags

SpecScan == InitScan /\ [][NextScan]_vars

-----------------------------------------------------------------------------
(* Properties                                                               *)

\* the comma-separated fields of a line: the tokens between the commas,
\* joined, the line break left out
Fields(line) ==
    LET body == SelectSeq(line, LAMBDA t : t # "\n")
        commas == SelectSeq([k \in 1..Len(body) |-> k], LAMBDA k : body[k] = ",")
        cut(j) == IF j = 0 THEN 0
                  ELSE IF j > Len(commas) THEN Len(body) + 1
                  ELSE commas[j]
    IN  [j \in 1..(Len(commas) + 1) |->
            Join(SubSeq(body, cut(j - 1) + 1, cut(j) - 1))]

\* a line has just been written and the locals still are those of its row
JustWritten == pc = "for" /\ Len(f) > 0

LastLine == Fields(f[Len(f)])

\* find_peaks_and_or_valleys has returned for the current row
Returned == pc \in {"count", "categorize", "positions", "slots", "write"}

\* the table of section 4.4
CategoryTable(p, v) ==
    CASE p = 0 /\ v = 0 -> "inactive"
      [] p = 1 /\ v = 0 -> "active"
      [] p = 0 /\ v = 1 -> "repressed"
      [] p \in {2, 4} /\ v = 0 -> "offset"
      [] OTHER -> "uncategorized"

\* C1: the category computed and written for a row is the table's value at
\* (number of peaks, number of valleys) of that row, and nothing else: (0,0)
\* inactive, (1,0) active, (0,1) repressed, (2,0) and (4,0) offset, every
\* other pair uncategorized.
C1_CategoryByCounts ==
    /\ pc \in {"positions", "slots", "write"} =>
          /\ peak_count = Len(peaks) /\ valley_count = Len(valleys)
          /\ category = CategoryTable(Len(peaks), Len(valleys))
    /\ JustWritten =>
          /\ LastLine[1] = Str(Len(peaks))
          /\ LastLine[2] = Str(Len(valleys))
          /\ LastLine[5] = CategoryTable(Len(peaks), Len(valleys))

C1_Witness ==
    /\ JustWritten
    /\ Len(peaks) = 4 /\ Len(valleys) = 0
    /\ LastLine[5] = "offset"

\* C2 as stated: for a non-empty raw row longer than reduce_size + smooth_size
\* the reduced row's length is within 1 of floor(len/reduce_size) - smooth_size.
C2_LengthAsStated ==
    (pc = "signals" /\ Len(raw_data_row) > reduce_size + smooth_size) =>
        Abs(Len(reduced_row) - (Len(raw_data_row) \div reduce_size - smooth_size)) <= 1

\* C2 amended: for a raw row of at least reduce_size * smooth_size samples the
\* reduced row has ceil(len/reduce_size) - smooth_size points, which is
\* floor(len/reduce_size) - smooth_size or one more (one more exactly when a
\* final partial chunk exists); and the row is the value of the function on
\* its arguments, the same at every call.
C2_ReducedLength ==
    (pc = "signals" /\ Len(raw_data_row) >= reduce_size * smooth_size) =>
        LET whole == Len(raw_data_row) \div reduce_size
            partial == IF Len(raw_data_row) % reduce_size = 0 THEN 0 ELSE 1
        IN  /\ Len(reduced_row) = whole + partial - smooth_size
            /\ Len(reduced_row) - (whole - smooth_size) \in {0, 1}
            /\ reduced_row =
                  _reduce_data_for_peak_detection(raw_data_row, reduce_size, smooth_size)

C2_Witness ==
    /\ pc = "signals"
    /\ Len(raw_data_row) >= reduce_size * smooth_size
    /\ Len(raw_data_row) % reduce_size # 0
    /\ reduce_size > 1 /\ smooth_size > 1
    /\ Len(reduced_row) = Len(raw_data_row) \div reduce_size - smooth_size + 1
    /\ Len(reduced_row) > 0

\* the signal levels as the claim states them, from the deviations
\* n*x - sum: x > mean + 1.5*stdev  <=>  the deviation is positive and
\* 4*(n-1)*deviation^2 > 9 * (sum of the squared deviations)
ClaimLevels(row) ==
    LET n == Len(row)
        total == SumRange(row, 1, n)
        dev == [k \in 1..n |-> n * row[k] - total]
        squares == SumRange([k \in 1..n |-> dev[k] * dev[k]], 1, n)
        far(k) == 4 * (n - 1) * dev[k] * dev[k] > 9 * squares
    IN  [k \in 1..n |-> IF dev[k] > 0 /\ far(k) THEN 1
                        ELSE IF dev[k] < 0 /\ far(k) THEN -1
                        ELSE 0]

\* six consecutive points of the level: a maximal run longer than 5
SustainedRun(levels, level) ==
    \E a \in 1..(Len(levels) - 5) : \A k \in a..(a + 5) : levels[k] = level

\* C3: for a reduced row of at least 2 points, scan_peaks is true exactly when
\* the signal levels hold a run of more than 5 consecutive +1, scan_valleys
\* exactly when they hold a run of more than 5 consecutive -1; a run of
\* exactly 5 sets no flag, and each flag is decided on its own.
C3_ScanFlags ==
    (pc = "results" /\ Len(reduced_row) >= 2) =>
        LET levels == ClaimLevels(reduced_row)
        IN  /\ signals = levels
            /\ peak_scan <=> SustainedRun(levels, 1)
            /\ valley_scan <=> SustainedRun(levels, -1)

C3_Witness ==
    /\ pc = "results"
    /\ peak_scan /\ ~ valley_scan
    /\ \E g \in 1..Len(grouped_signal_counts) : grouped_signal_counts[g] = << -1, 5 >>

ConstantRow(row) == \A k \in 1..Len(row) : row[k] = row[1]

\* C4: for a constant-valued reduced row of at least 2 points _determine_scans
\* raises nothing and returns (False, False).
C4_ConstantRow ==
    (Len(reduced_row) >= 2 /\ ConstantRow(reduced_row)) =>
        /\ pc # "raised"
        /\ exception = ""
        /\ pc = "results" => (~ peak_scan /\ ~ valley_scan)

C4_Witness ==
    /\ pc = "results"
    /\ Len(reduced_row) > scan_threshold
    /\ ConstantRow(reduced_row)
    /\ reduced_row[1] > 0

Range(seq) == {seq[k] : k \in 1..Len(seq)}

\* C5: when find_peaks_and_or_valleys returns, a false peak flag means no
\* peaks, no peak properties and no search made on the signal; a false valley
\* flag means no valleys, no valley properties and no search made on the
\* inverted signal.
C5_SkippedSearch ==
    Returned =>
        /\ ~ peak_scan =>
              (peaks = << >> /\ peak_properties = << >> /\ "y" \notin Range(searches))
        /\ ~ valley_scan =>
              (valleys = << >> /\ valley_properties = << >>
                  /\ "y_inverse" \notin Range(searches))
        /\ (~ peak_scan /\ ~ valley_scan) => searches = << >>

\* both searches skipped on a row where the search of the signal finds peaks
C5_Witness ==
    /\ pc = "count"
    /\ ~ peak_scan /\ ~ valley_scan
    /\ PeakSearch(reduced_row, smooth_size).peaks # << >>
    /\ peaks = << >>

\* the position of reduced index idx as the claim states it
ClaimPosition(idx) == (idx + smooth_size \div 2) * reduce_size - 1500

\* C6: every peak or valley index i is mapped, and written, as
\* (i + floor(smooth_size/2)) * reduce_size - 1500; index 5 gives -1400 with
\* sizes 10 and 10; ascending indices give ascending positions.
C6_PositionMapping ==
    /\ pc \in {"slots", "write"} =>
          /\ peaks_bp = [k \in 1..Len(peaks) |-> ClaimPosition(peaks[k])]
          /\ valleys_bp = [k \in 1..Len(valleys) |-> ClaimPosition(valleys[k])]
          /\ \A a, b \in 1..Len(peaks) : a < b => peaks_bp[a] < peaks_bp[b]
          /\ \A a, b \in 1..Len(valleys) : a < b => valleys_bp[a] < valleys_bp[b]
          /\ \A k \in 1..Len(peaks) : peaks[k] = 5 => peaks_bp[k] = -1400
    /\ JustWritten =>
          /\ \A k \in 1..Min(4, Len(peaks)) : LastLine[5 + k] = Str(ClaimPosition(peaks[k]))
          /\ Len(valleys) > 0 => LastLine[10] = Str(ClaimPosition(valleys[1]))

C6_Witness ==
    /\ JustWritten
    /\ peaks = << 5 >>
    /\ LastLine[6] = "-1400"

\* C7: every line written has exactly 10 comma-separated fields: peak count,
\* valley count, cleaned identifier, sample tag, category, four peak slots,
\* one valley slot; slot k holds the k-th peak position when the row has at
\* least k peaks and is empty otherwise, the valley slot the first valley
\* position when there is one; later peaks and valleys are not written.
C7_FixedRecord ==
    /\ \A j \in 1..Len(f) :
          /\ Len(Fields(f[j])) = 10
          /\ f[j][Len(f[j])] = "\n"
    /\ JustWritten =>
          /\ LastLine[1] = Str(Len(peaks))
          /\ LastLine[2] = Str(Len(valleys))
          /\ LastLine[3] = CleanId(ids[Len(f)])
          /\ LastLine[4] = sra
          /\ LastLine[5] = category
          /\ \A k \in 1..4 :
                LastLine[5 + k] = IF Len(peaks) >= k THEN Str(peaks_bp[k]) ELSE ""
          /\ LastLine[10] = IF Len(valleys) >= 1 THEN Str(valleys_bp[1]) ELSE ""
          /\ \A a, b \in 1..Len(peaks) : a < b => peaks[a] < peaks[b]

C7_Witness ==
    /\ JustWritten
    /\ Len(peaks) = 5
    /\ Len(Fields(f[Len(f)])) = 10
    /\ LastLine[9] = Str(peaks_bp[4])
    /\ LastLine[10] = ""

\* C8: the row of 3000 samples, 0 except 100 on samples 1490..1510, handled
\* with sizes 10 and 10, gives one peak and no valley, is written as active,
\* with one position, within 10 of 0.
C8_PlateauRow ==
    raw_data = << PlateauRow >> =>
        /\ pc # "raised"
        /\ Returned => (Len(peaks) = 1 /\ valleys = << >>)
        /\ pc = "done" =>
              /\ Len(f) = 1
              /\ LastLine[1] = "1" /\ LastLine[2] = "0"
              /\ LastLine[5] = "active"
              /\ \E v \in -10..10 : LastLine[6] = Str(v)
              /\ \A k \in 7..10 : LastLine[k] = ""

C8_Witness ==
    /\ raw_data = << PlateauRow >>
    /\ pc = "done"
    /\ Len(f) = 1
    /\ peak_scan /\ ~ valley_scan

\* a raw row whose reduced row has fewer than 2 points
TooShort(row) ==
    Len(_reduce_data_for_peak_detection(row, reduce_size, smooth_size)) < 2

\* C9: a too-short row fails alone: when the run has ended, every other row
\* of the batch has its line in the output, and the output is closed.
C9_ShortRowNotFatal ==
    pc \in {"done", "raised"} =>
        /\ ~ f_open
        /\ Len(f) = Cardinality({j \in 1..Len(raw_data) : ~ TooShort(raw_data[j])})

\* the record of one row, from the row, its identifier and the sample tag alone
RecordOf(row, ident, tag) ==
    LET reduced == _reduce_data_for_peak_detection(row, 10, 10)
        grouped == GroupBy(Signals(reduced))
        found == IF ScanFlag(grouped, 1) THEN PeakSearch(reduced, 10).peaks ELSE << >>
        sunk == IF ScanFlag(grouped, -1) THEN ValleySearch(reduced, 10).peaks ELSE << >>
        at(idx) == Str((idx + 5) * 10 - 1500)
        slot(k) == IF Len(found) >= k THEN << ",", at(found[k]) >> ELSE << "," >>
    IN  << Str(Len(found)), ",", Str(Len(sunk)), ",", CleanId(ident), ",", tag, ",",
           CategoryTable(Len(found), Len(sunk)) >>
        \o slot(1) \o slot(2) \o slot(3) \o slot(4)
        \o (IF Len(sunk) >= 1 THEN << ",", at(sunk[1]) >> ELSE << "," >>)
        \o << "\n" >>

\* the rows counted into the diagnostic map so far
Counted == UNION {Range(rows_by_counts[key]) : key \in DOMAIN rows_by_counts}

\* C10: after k rows the output holds k lines, line j the record of row j with
\* identifier j, in input order, none skipped or repeated; a line depends on
\* its row and identifier alone, not on the rows before, the diagnostic map or
\* the value the inner loop leaves in i; the row handled next is the next row
\* of the input.
C10_RowByRow ==
    /\ \A j \in 1..Len(f) : f[j] = RecordOf(raw_data[j], ids[j], sra)
    /\ pc = "for" => Len(f) = it
    /\ pc = "done" => Len(f) = Len(raw_data)
    /\ pc \notin {"for", "done"} =>
          /\ Len(f) = it - 1
          /\ raw_data_row = raw_data[it]
    /\ Counted = 0..((IF Returned /\ pc # "count" THEN it ELSE Len(f)) - 1)

C10_Witness ==
    /\ pc = "for"
    /\ Len(f) = 3
    /\ i = 3
    /\ f[1] # f[2] /\ f[2] # f[3]
    /\ Len(peaks) = 0 /\ Len(Fields(f[2])) = 10 /\ Fields(f[2])[1] = "1"

====
